---- MODULE Spec2Model ----
(***************************************************************************)
(* Model of the playback controller of src/app/index.tsx: the React        *)
(* component App, its state hooks, the effect on currentTrackIndex and the *)
(* asynchronous handlers loadTrack, playPauseTrack, stopTrack, nextTrack   *)
(* and previousTrack, run against the expo-av audio engine.                *)
(*                                                                         *)
(* Every handler is a closure over the state of the render it was created  *)
(* in: an asynchronous invocation keeps the values of sound, isPlaying and *)
(* isSoundLoaded it captured when it was called, across its awaits.  An    *)
(* invocation suspended at an await is an element of the bag procs.        *)
(***************************************************************************)
EXTENDS Integers, Sequences, FiniteSets, Bags

\* Largest playlist the catalog listing returns.
MaxSongs == 2
\* Number of loadTrack invocations one run may start.
MaxLoads == 2
\* Number of asynchronous invocations suspended at the same time.
MaxProcs == 2
\* Largest playlist of the wrap-around runs of SpecWrap.
MaxWrapSongs == 5

VARIABLES
    phase,              \* "init" | "seeding" | "listed": mount and catalog listing
    songs,              \* useState<Song[]>: the sequence of track numbers 0..N-1
    sound,              \* useState<Audio.Sound | null>: a unit id, or NULL
    isPlaying,          \* useState(false)
    isSoundLoaded,      \* useState(false)
    currentTrackIndex,  \* useState(0)
    effectSound,        \* the `sound` captured by the pending effect cleanup
    units,              \* the engine: one record per Audio.Sound created
    procs,              \* bag of asynchronous invocations suspended at an await
    loads,              \* number of loadTrack invocations started by commands
    lastCmd,            \* history: the most recent user command and its outcome
    run                 \* history: the current run of next/previous commands

playback == <<sound, isPlaying, isSoundLoaded, currentTrackIndex>>
vars == <<phase, songs, sound, isPlaying, isSoundLoaded, currentTrackIndex,
          effectSound, units, procs, loads, lastCmd, run>>

NULL == 0

N == Len(songs)

NoRun == [kind |-> "none", start |-> 0, len |-> 0]

NoCmd == [op |-> "none", load |-> "none", tr |-> "none"]

(***************************************************************************)
(* The audio engine (expo-av), as the controller calls it.                 *)
(***************************************************************************)

\* A unit is loaded in the engine.
Loaded(us, s) == s # NULL /\ us[s].loaded

\* sound.unloadAsync(): releases the unit; on a unit already unloaded it
\* resolves without error.  The unit stops being usable when the call is made.
UnloadAsync(us, s) ==
    IF s = NULL THEN us
    ELSE [us EXCEPT ![s] = [@ EXCEPT !.loaded = FALSE, !.playing = FALSE,
                                     !.unloads = @ + 1]]

\* Audio.Sound.createAsync({uri}, {shouldPlay: false}) resolving: a new unit,
\* loaded and not playing.
CreateAsync(us, index) ==
    Append(us, [track |-> index, loaded |-> TRUE, playing |-> FALSE, unloads |-> 0])

\* playAsync / pauseAsync / stopAsync resolving on unit s.
Transport(us, s, call) ==
    IF Loaded(us, s)
    THEN [us EXCEPT ![s].playing = (call = "playAsync")]
    ELSE us

Init ==
    /\ phase = "init"
    /\ songs = <<>>
    /\ sound = NULL
    /\ isPlaying = FALSE
    /\ isSoundLoaded = FALSE
    /\ currentTrackIndex = 0
    /\ effectSound = NULL
    /\ units = <<>>
    /\ procs = EmptyBag
    /\ loads = 0
    /\ lastCmd = NoCmd
    /\ run = NoRun

(***************************************************************************)
(* History of the commands: the last command and how its own asynchronous  *)
(* work ended (load: its loadTrack, tr: its transport call).  An           *)
(* invocation tagged `latest` belongs to the last command; a new command   *)
(* clears the tag of the older invocations.                                *)
(***************************************************************************)

Cmd(op, load, tr) == [op |-> op, load |-> load, tr |-> tr]

Untag(B) ==
    LET U(r) == [r EXCEPT !.latest = FALSE]
        S == {U(r) : r \in BagToSet(B)}
        T(r) == [r EXCEPT !.latest = TRUE]
    IN  [r \in S |-> (IF r \in DOMAIN B THEN B[r] ELSE 0)
                     + (IF T(r) \in DOMAIN B THEN B[T(r)] ELSE 0)]

Spawn(B, p) == B (+) SetToBag({p})
Retire(B, p) == B (-) SetToBag({p})

Quiescent == procs = EmptyBag

(***************************************************************************)
(* Index arithmetic of nextTrack and previousTrack.                        *)
(***************************************************************************)

\* The value of `x % 0` in JavaScript, an index of no track.
NaN == -1

\* The operator % on a non-negative left operand.
Rem(a, n) == IF n = 0 THEN NaN ELSE a % n

NextIndexNoWrap(i, n) == i + 1
NextIndex(i, n) == Rem(i + 1, n)

PrevIndexNoWrap(i, n) == i - 1
PrevIndex(i, n) == Rem(i - 1 + n, n)

\* useEffect(..., [currentTrackIndex]): the effect runs again only when the
\* dependency changed (setCurrentTrackIndex with the same value re-renders
\* nothing).
EffectAlways(old, new) == TRUE
EffectReruns(old, new) == old # new

RunAfterNext(i) ==
    IF run.kind = "next"
    THEN [run EXCEPT !.len = @ + 1]
    ELSE [kind |-> "next", start |-> i, len |-> 1]

RunAfterPrevious(i) ==
    IF run.kind = "previous" THEN [run EXCEPT !.len = @ + 1]
    ELSE IF run.kind = "next" /\ run.len = 1 THEN [run EXCEPT !.kind = "nextprevious", !.len = 2]
    ELSE [kind |-> "previous", start |-> i, len |-> 1]

(***************************************************************************)
(* loadTrack(index), called in the closure of the current render, up to    *)
(* its first await: `if (sound) await sound.unloadAsync()`, else straight  *)
(* to createAsync.                                                         *)
(***************************************************************************)

\* The invocation as it is suspended.  An effect's loadTrack reads only
\* `sound` and `index` of its closure; nextTrack / previousTrack go on to
\* playPauseTrack(), which reads isPlaying and isSoundLoaded of the same
\* closure.
LoadTrack(fn, index, latest) ==
    [fn |-> fn,
     pc |-> IF sound # NULL THEN "unloadAsync" ELSE "createAsync",
     index |-> index,
     sound |-> sound,
     isPlaying |-> IF fn = "effect" THEN FALSE ELSE isPlaying,
     isSoundLoaded |-> IF fn = "effect" THEN FALSE ELSE isSoundLoaded,
     latest |-> latest]

\* setCurrentTrackIndex(index) followed by the render it causes: when the
\* index changed, the cleanup of the previous effect unloads the sound that
\* effect's render held, then the effect calls loadTrack(index) in the new
\* render.  `us` and `ps` are the engine and the suspended invocations as
\* the handler left them; `tag` tells whether the effect's load is the
\* command's own.
SetCurrentTrackIndex(index, us, ps, tag) ==
    /\ currentTrackIndex' = index
    /\ IF EffectReruns(currentTrackIndex, index)
       THEN /\ units' = UnloadAsync(UnloadAsync(us, effectSound), sound)
            /\ procs' = Spawn(ps, LoadTrack("effect", index, tag))
            /\ effectSound' = sound
       ELSE /\ units' = us
            /\ procs' = ps
            /\ effectSound' = effectSound

(***************************************************************************)
(* Mount and the catalog listing.                                          *)
(***************************************************************************)

\* First render and its effects: the database is seeded, and the effect on
\* currentTrackIndex calls loadTrack(0) while songs is still empty: sound is
\* null, songs[0].uri throws inside the try and the catch logs it.
Mount ==
    /\ phase = "init"
    /\ phase' = "seeding"
    /\ UNCHANGED <<songs, playback, effectSound, units, procs, loads, lastCmd, run>>

\* fetchSongs' success callback: setSongs(rows).  currentTrackIndex does not
\* change, so the effect does not run again.
FetchSongs(n) ==
    /\ phase = "seeding"
    /\ phase' = "listed"
    /\ songs' = [k \in 1..n |-> k - 1]
    /\ UNCHANGED <<playback, effectSound, units, procs, loads, lastCmd, run>>

\* The transport buttons rendered with every listing, an empty one included.
ControlsAlways == phase = "listed"

\* The transport buttons are rendered only then.
ControlsShown ==
    /\ phase = "listed"
    /\ N > 0
    /\ currentTrackIndex + 1 \in DOMAIN songs

(***************************************************************************)
(* User commands.                                                          *)
(***************************************************************************)

\* A row of the list is pressed: setCurrentTrackIndex(index).
SelectTrack(index) ==
    /\ phase = "listed"
    /\ index + 1 \in DOMAIN songs
    /\ SetCurrentTrackIndex(index, units, Untag(procs), TRUE)
    /\ loads' = IF EffectReruns(currentTrackIndex, index) THEN loads + 1 ELSE loads
    /\ lastCmd' = Cmd("select",
                      IF EffectReruns(currentTrackIndex, index) THEN "pending" ELSE "none",
                      "none")
    /\ UNCHANGED <<phase, songs, sound, isPlaying, isSoundLoaded>>

\* The guard of playPauseTrack and stopTrack.
SoundReady(s, l) == s # NULL /\ l

\* playPauseTrack / stopTrack in a closure (s, p, l), up to the await: the
\* engine call it makes, "warned" when the guard refuses, or "rejected" when
\* the call is made on a unit that is not loaded: the engine rejects it at
\* once and the catch block logs the error.
TransportCall(fn, p) ==
    IF fn = "stopTrack" THEN "stopAsync"
    ELSE IF p THEN "pauseAsync" ELSE "playAsync"

TransportStart(fn, s, p, l, us) ==
    IF ~SoundReady(s, l) THEN "warned"
    ELSE IF ~Loaded(us, s) THEN "rejected"
    ELSE TransportCall(fn, p)

\* The invocation suspended at its engine call.  Its continuation reads only
\* `isPlaying` of its closure, and only after playAsync / pauseAsync.
TransportProc(call, s, latest) ==
    [fn |-> IF call = "stopAsync" THEN "stopTrack" ELSE "playPauseTrack",
     pc |-> call, index |-> 0, sound |-> s, isPlaying |-> call = "pauseAsync",
     isSoundLoaded |-> TRUE, latest |-> latest]

TransportButton(fn, op) ==
    LET out == TransportStart(fn, sound, isPlaying, isSoundLoaded, units) IN
    /\ ControlsShown
    /\ procs' = IF out \in {"warned", "rejected"}
                THEN Untag(procs)
                ELSE Spawn(Untag(procs), TransportProc(out, sound, TRUE))
    /\ lastCmd' = Cmd(op, "none", IF out \in {"warned", "rejected"} THEN out ELSE "pending")
    /\ UNCHANGED <<phase, songs, playback, effectSound, units, loads>>

PlayPauseTrack == TransportButton("playPauseTrack", "playPause")

StopTrack == TransportButton("stopTrack", "stop")

\* nextTrack / previousTrack: setCurrentTrackIndex(index); await
\* loadTrack(index); playPauseTrack().  loadTrack runs to its first await
\* before the handler returns and React renders the new index.
SwitchTrack(fn, index) ==
    /\ ControlsShown
    /\ SetCurrentTrackIndex(index, UnloadAsync(units, sound),
                            Spawn(Untag(procs), LoadTrack(fn, index, TRUE)), FALSE)
    /\ loads' = IF EffectReruns(currentTrackIndex, index) THEN loads + 2 ELSE loads + 1
    /\ UNCHANGED <<phase, songs, sound, isPlaying, isSoundLoaded>>

NextTrack ==
    /\ SwitchTrack("nextTrack", NextIndex(currentTrackIndex, N))
    /\ lastCmd' = Cmd("next", "pending", "none")

PreviousTrack ==
    /\ SwitchTrack("previousTrack", PrevIndex(currentTrackIndex, N))
    /\ lastCmd' = Cmd("previous", "pending", "none")
(***************************************************************************)
(* Engine completions: the continuation of a suspended invocation.         *)
(***************************************************************************)

Result(ok) == IF ok THEN "ok" ELSE "failed"

\* A state setter called by a continuation: React ignores it once the
\* component is unmounted.
SetState(new, cur) == IF phase = "unmounted" THEN cur ELSE new

\* `await sound.unloadAsync()` resolves; loadTrack enters the try and calls
\* createAsync for songs[index].uri.
UnloadDone(p) ==
    /\ p \in BagToSet(procs)
    /\ p.pc = "unloadAsync"
    /\ procs' = Spawn(Retire(procs, p), [p EXCEPT !.pc = "createAsync"])
    /\ UNCHANGED <<phase, songs, playback, effectSound, units, loads, lastCmd, run>>

\* isSoundLoaded after createAsync settled: setIsSoundLoaded(true) on
\* success; the catch block only logs.
LoadedAfterCreateReset(ok, l) == ok
LoadedAfterCreate(ok, l) == IF ok THEN TRUE ELSE l

\* `await Audio.Sound.createAsync(...)` settles.  On success setSound and
\* setIsSoundLoaded(true); on failure the error is logged.  An effect's
\* loadTrack ends there; nextTrack / previousTrack then call
\* playPauseTrack() of their own closure.
CreateDone(p, ok) ==
    LET us == IF ok THEN CreateAsync(units, p.index) ELSE units
        out == TransportStart("playPauseTrack", p.sound, p.isPlaying, p.isSoundLoaded, us)
        ends == p.fn = "effect" \/ out \in {"warned", "rejected"}
    IN
    /\ p \in BagToSet(procs)
    /\ p.pc = "createAsync"
    /\ ok => p.index + 1 \in DOMAIN songs
    /\ units' = us
    /\ sound' = SetState(IF ok THEN Len(us) ELSE sound, sound)
    /\ isSoundLoaded' = SetState(LoadedAfterCreate(ok, isSoundLoaded), isSoundLoaded)
    /\ procs' = IF ends
                THEN Retire(procs, p)
                ELSE Spawn(Retire(procs, p),
                           TransportProc(out, p.sound, p.latest))
    /\ lastCmd' = IF ~p.latest THEN lastCmd
                  ELSE IF p.fn = "effect" THEN [lastCmd EXCEPT !.load = Result(ok)]
                  ELSE [lastCmd EXCEPT !.load = Result(ok),
                                       !.tr = IF ends THEN out ELSE "pending"]
    /\ UNCHANGED <<phase, songs, isPlaying, currentTrackIndex, effectSound, loads, run>>

\* isPlaying after a transport call resolved: setIsPlaying(!isPlaying) of
\* the closure in playPauseTrack, setIsPlaying(false) in stopTrack.
IsPlayingAfter(call, p) == IF call = "stopAsync" THEN FALSE ELSE ~p

\* The setter written after the try block: it runs on a failure too.
IsPlayingOutsideTry(ok, call, p, cur) == IsPlayingAfter(call, p)

\* isPlaying once the call settled: the setter follows the await inside the
\* try block, so a rejected call skips it and the catch block only logs.
IsPlayingSettled(ok, call, p, cur) ==
    IF ok THEN IsPlayingAfter(call, p) ELSE cur

\* `await sound.playAsync() / pauseAsync() / stopAsync()` settles.
TransportDone(p, ok) ==
    /\ p \in BagToSet(procs)
    /\ p.pc \in {"playAsync", "pauseAsync", "stopAsync"}
    /\ units' = IF ok THEN Transport(units, p.sound, p.pc) ELSE units
    /\ isPlaying' = SetState(IsPlayingSettled(ok, p.pc, p.isPlaying, isPlaying),
                              isPlaying)
    /\ procs' = Retire(procs, p)
    /\ lastCmd' = IF p.latest THEN [lastCmd EXCEPT !.tr = Result(ok)] ELSE lastCmd
    /\ UNCHANGED <<phase, songs, sound, isSoundLoaded, currentTrackIndex,
                   effectSound, loads, run>>

(***************************************************************************)
(* Specifications.                                                         *)
(***************************************************************************)

\* The bounds of a run: loadTrack invocations started, invocations suspended.
Bounded == loads' <= MaxLoads /\ BagCardinality(procs') <= MaxProcs

\* The presses of the list rows and of the transport buttons, in any state
\* and in any order.  The run of next/previous commands is recorded by
\* SpecWrap only.
PressRow(index) == SelectTrack(index) /\ Bounded /\ UNCHANGED run
PressPlayPause == PlayPauseTrack /\ Bounded /\ UNCHANGED run
PressStop == StopTrack /\ Bounded /\ UNCHANGED run
PressNext == NextTrack /\ Bounded /\ UNCHANGED run
PressPrevious == PreviousTrack /\ Bounded /\ UNCHANGED run

\* Every interleaving of the commands and of the engine completions.
Next ==
    \/ Mount
    \/ \E n \in 0..MaxSongs : FetchSongs(n)
    \/ \E i \in 0..(MaxSongs - 1) : PressRow(i)
    \/ PressPlayPause
    \/ PressStop
    \/ PressNext
    \/ PressPrevious
    \/ \E p \in BagToSet(procs) : UnloadDone(p)
    \/ \E p \in BagToSet(procs), ok \in BOOLEAN : CreateDone(p, ok)
    \/ \E p \in BagToSet(procs), ok \in BOOLEAN : TransportDone(p, ok)

Spec == Init /\ [][Next]_vars

(***************************************************************************)
(* Runs of next / previous commands from every index of every playlist:    *)
(* next N times, previous N times, next then previous, each command        *)
(* issued once the previous one's engine calls have settled.  The run      *)
(* starts where a listing of n songs and a selection of row i whose load   *)
(* failed leave the controller.  At most MaxLoads loads of a run succeed.  *)
(***************************************************************************)

InitWrap ==
    /\ phase = "listed"
    /\ \E n \in 1..MaxWrapSongs :
         /\ songs = [k \in 1..n |-> k - 1]
         /\ currentTrackIndex \in 0..(n - 1)
    /\ sound = NULL
    /\ isPlaying = FALSE
    /\ isSoundLoaded = FALSE
    /\ effectSound = NULL
    /\ units = <<>>
    /\ procs = EmptyBag
    /\ loads = IF currentTrackIndex = 0 THEN 0 ELSE 1
    /\ lastCmd = IF currentTrackIndex = 0 THEN NoCmd ELSE Cmd("select", "failed", "none")
    /\ run = NoRun

WrapNext ==
    /\ Quiescent
    /\ run.kind \in {"none", "next"}
    /\ run.len < N
    /\ NextTrack
    /\ run' = RunAfterNext(currentTrackIndex)

WrapPrevious ==
    /\ Quiescent
    /\ \/ run.kind \in {"none", "previous"} /\ run.len < N
       \/ run.kind = "next" /\ run.len = 1
    /\ PreviousTrack
    /\ run' = RunAfterPrevious(currentTrackIndex)

NextWrap ==
    \/ WrapNext
    \/ WrapPrevious
    \/ \E p \in BagToSet(procs) : UnloadDone(p)
    \/ \E p \in BagToSet(procs), ok \in BOOLEAN :
          CreateDone(p, ok) /\ Len(units') <= MaxLoads

SpecWrap == InitWrap /\ [][NextWrap]_vars

(***************************************************************************)
(* Teardown: the component may be unmounted in any state after the mount.  *)
(***************************************************************************)

\* The component is unmounted: React runs the cleanup of the last run of the
\* effect on currentTrackIndex, which unloads the sound of the render in
\* which that effect ran.  Nothing else is torn down; the invocations in
\* flight go on to their ends.
Unmount ==
    /\ phase \in {"seeding", "listed"}
    /\ phase' = "unmounted"
    /\ units' = UnloadAsync(units, effectSound)
    /\ UNCHANGED <<songs, playback, effectSound, procs, loads, lastCmd, run>>

NextUnmount == Next \/ Unmount

SpecUnmount == Init /\ [][NextUnmount]_vars

(***************************************************************************)
(* Properties.                                                             *)
(***************************************************************************)

LoadedUnits == {u \in DOMAIN units : units[u].loaded}

\* No load started by a command has failed: each has produced its unit.
EveryLoadSucceeded == Len(units) = loads

\* C1: once all engine calls have settled and every load has succeeded, the
\* handle held belongs to the most recently selected index (a load that
\* completes late does not override a later selection).
C1_StaleLoadGuard ==
    (Quiescent /\ EveryLoadSucceeded /\ sound # NULL)
        => units[sound].track = currentTrackIndex

\* C2: in every reachable state, isPlaying implies isSoundLoaded.
C2_PlayingImpliesLoaded == isPlaying => isSoundLoaded

C2_Witness == isPlaying /\ isSoundLoaded /\ Loaded(units, sound) /\ units[sound].playing

\* C3: at every moment at most one unit created by the engine is loaded
\* (created and not yet unloaded).
C3_AtMostOneUnitLoaded == Cardinality(LoadedUnits) <= 1

\* C4: with a playlist of N > 0 tracks, currentTrackIndex is an integer in
\* [0, N) in every reachable state.
C4_IndexInRange == N > 0 => currentTrackIndex \in 0..(N - 1)

\* previous at index 0 has wrapped around to the last track.
C4_Witness ==
    /\ lastCmd.op = "previous"
    /\ N = MaxSongs
    /\ currentTrackIndex = N - 1

\* C5: next N times from index i returns to i, previous N times returns to
\* i, and next followed by previous returns to i.
C5_WrapAroundClosure ==
    /\ (run.kind \in {"next", "previous"} /\ run.len = N) => currentTrackIndex = run.start
    /\ run.kind = "nextprevious" => currentTrackIndex = run.start

\* Five next commands on five tracks, from index 0, are back at index 0.
C5_Witness ==
    /\ N = 5
    /\ run = [kind |-> "next", start |-> 0, len |-> 5]
    /\ currentTrackIndex = 0
    /\ Quiescent

\* The controller is Ready or Playing at index i: it holds a unit of track i
\* that is loaded in the engine.
ReadyAt(i) ==
    /\ currentTrackIndex = i
    /\ isSoundLoaded
    /\ Loaded(units, sound)
    /\ units[sound].track = i

\* C6: selecting row i while Ready or Playing at index i starts no load,
\* makes no unload and leaves the playback state unchanged.
C6_SelectIdempotent ==
    [][\A i \in 0..(MaxSongs - 1) :
         (ReadyAt(i) /\ SelectTrack(i))
            => /\ UNCHANGED <<playback, units, effectSound, loads>>
               /\ Untag(procs') = Untag(procs)]_vars

C6_Witness ==
    /\ lastCmd = Cmd("select", "none", "none")
    /\ ReadyAt(currentTrackIndex)

\* C7: playPause issued while the controller is not Ready or Playing (no
\* unit held, or the unit held already unloaded while the next load is in
\* flight) issues no engine call, reports a warning and changes no state.
C7_PlayPauseNotReadyIsNoOp ==
    [][(PlayPauseTrack /\ ~Loaded(units, sound))
          => /\ lastCmd'.tr = "warned"
             /\ UNCHANGED <<playback, units, effectSound, loads>>
             /\ Untag(procs') = Untag(procs)]_vars

\* C8: when a row is selected and its load fails (nothing else in flight,
\* the handle still the one held at the selection), the controller ends Idle
\* at the selected index: no handle held, isSoundLoaded and isPlaying false,
\* and the handle held before was unloaded exactly once.
C8_LoadFailureRevertsToIdle ==
    [][\A p \in BagToSet(procs) :
         (/\ lastCmd.op = "select"
          /\ p.latest
          /\ procs = SetToBag({p})
          /\ sound = p.sound
          /\ CreateDone(p, FALSE))
            => /\ currentTrackIndex' = p.index
               /\ sound' = NULL
               /\ ~isSoundLoaded'
               /\ ~isPlaying'
               /\ p.sound # NULL => units'[p.sound].unloads = 1]_vars

\* C9: a stop whose engine call succeeds leaves isPlaying false and the
\* handle, isSoundLoaded, currentTrackIndex and the unit's loading unchanged;
\* a stop issued while no unit is loaded in the engine changes no state and
\* makes no engine call.
C9_StopKeepsLoaded ==
    [][/\ \A p \in BagToSet(procs) :
            (p.pc = "stopAsync" /\ TransportDone(p, TRUE))
               => /\ ~isPlaying'
                  /\ UNCHANGED <<sound, isSoundLoaded, currentTrackIndex>>
                  /\ Loaded(units', p.sound) = Loaded(units, p.sound)
       /\ (StopTrack /\ ~Loaded(units, sound))
            => /\ lastCmd'.tr = "warned"
               /\ UNCHANGED <<playback, units, effectSound, loads>>
               /\ Untag(procs') = Untag(procs)]_vars

\* C10: after next or previous, when every load has succeeded, no transport
\* call has failed and no further command was issued, the engine ends up
\* playing the unit held and isPlaying is true.
C10_SwitchStartsPlayback ==
    (/\ Quiescent
     /\ lastCmd.op \in {"next", "previous"}
     /\ EveryLoadSucceeded
     /\ lastCmd.tr # "failed")
        => /\ isPlaying
           /\ Loaded(units, sound)
           /\ units[sound].playing

\* C11: a playPause whose engine call resolves sets isPlaying to true after
\* playAsync and to false after pauseAsync, and not before; a playPause
\* issued while the engine call of an earlier playPause is still in flight
\* acts on the state that earlier command leaves: it makes the opposite call.
C11_PlayPauseInOrder ==
    [][/\ \A p \in BagToSet(procs) :
            (p.pc \in {"playAsync", "pauseAsync"} /\ TransportDone(p, TRUE))
               => isPlaying' = (p.pc = "playAsync")
       /\ PlayPauseTrack => isPlaying' = isPlaying
       /\ \A p \in BagToSet(procs) :
            (/\ procs = SetToBag({p})
             /\ p.pc \in {"playAsync", "pauseAsync"}
             /\ p.sound = sound
             /\ Loaded(units, sound)
             /\ PlayPauseTrack)
               => \E q \in BagToSet(procs') :
                     /\ q.latest
                     /\ q.pc = IF p.pc = "playAsync" THEN "pauseAsync" ELSE "playAsync"]_vars

\* C12: when an engine play, pause or stop call fails, whether it is rejected
\* at once or after being in flight, currentTrackIndex, sound, isSoundLoaded
\* and isPlaying and the engine's units are what they were before, and the
\* transport controls stay available.
C12_TransportFailureKeepsState ==
    [][/\ \A p \in BagToSet(procs) :
            (p.pc \in {"playAsync", "pauseAsync", "stopAsync"}
               /\ TransportDone(p, FALSE))
               => (UNCHANGED <<playback, units>> /\ ControlsShown')
       /\ ((PlayPauseTrack \/ StopTrack) /\ lastCmd'.tr = "rejected")
               => (UNCHANGED <<playback, units>> /\ ControlsShown')]_vars

\* A play/pause or stop command whose engine call failed while in flight.
C12_Witness ==
    /\ lastCmd.op \in {"playPause", "stop"}
    /\ lastCmd.tr = "failed"
    /\ Quiescent

\* C13: once the load of the current index has failed and nothing is in
\* flight, selecting that same index in the list starts a new loadTrack for
\* it.
C13_ReselectRetriesLoad ==
    [][\A i \in 0..(N - 1) :
          (/\ lastCmd.load = "failed"
           /\ Quiescent
           /\ i = currentTrackIndex
           /\ SelectTrack(i))
             => /\ loads' = loads + 1
                /\ \E q \in BagToSet(procs') :
                      q.index = i /\ q.pc \in {"unloadAsync", "createAsync"}]_vars

\* C14: when the listing arrives with at least one song and no track was
\* selected before, the step that delivers it leaves track 0 selected and
\* not playing and starts a load of track 0, the load whose success, with no
\* command given, makes track 0 loaded and not playing.
C14_FirstTrackPreloaded ==
    [][\A n \in 1..MaxSongs :
          FetchSongs(n)
            => /\ currentTrackIndex' = 0
               /\ ~isPlaying'
               /\ \E q \in BagToSet(procs') :
                     q.index = 0 /\ q.pc = "createAsync"]_vars

\* C15: isPlaying is never true while sound is null or names a unit that is
\* not loaded in the engine, a track switch and a failed load included.
C15_NeverPlayingWithoutLoadedUnit == isPlaying => Loaded(units, sound)

\* C16: when the component is unmounted while sound names a loaded unit,
\* that unit is unloaded by the teardown, and with nothing in flight no unit
\* is left loaded in the engine.
C16_UnmountUnloadsHeldUnit ==
    [][Unmount => /\ Loaded(units, sound) => ~Loaded(units', sound)
                  /\ Quiescent => LoadedUnits' = {}]_vars

\* C17: with a playlist of one track, next and previous leave
\* currentTrackIndex at 0 and still reload and autoplay: once the command's
\* load succeeded and its engine calls settled without a transport failure,
\* a new unit of track 0 is held and loaded, and that unit is playing with
\* isPlaying true.
C17_SingleTrackReloads ==
    (N = 1 /\ lastCmd.op \in {"next", "previous"})
       => /\ currentTrackIndex = 0
          /\ (Quiescent /\ lastCmd.load = "ok" /\ lastCmd.tr # "failed")
                => /\ Loaded(units, sound)
                   /\ units[sound].track = 0
                   /\ units[sound].playing
                   /\ isPlaying

C19_NoCallOnUnloadedUnit ==
    [][/\ (PlayPauseTrack \/ StopTrack) => lastCmd'.tr # "rejected"
       /\ \A p \in BagToSet(procs) : \A ok \in BOOLEAN :
             (p.pc = "createAsync" /\ p.fn # "effect" /\ CreateDone(p, ok))
                => TransportStart("playPauseTrack", p.sound, p.isPlaying,
                                  p.isSoundLoaded, units') # "rejected"
       /\ \A u \in DOMAIN units' : units'[u].unloads <= 1]_vars

\* C20: whenever no engine call is in flight, isPlaying is true exactly when
\* the unit named by sound is loaded and playing in the engine; so after a
\* switch of tracks by a press of a row while playing, the new unit is
\* loaded and not playing and isPlaying is false.
C20_IsPlayingMirrorsEngine ==
    Quiescent => (isPlaying <=> (Loaded(units, sound) /\ units[sound].playing))

====
